---- MODULE Spec2Model ----
(***************************************************************************)
(* Stream controller of stream-axios (createStreamRequest in               *)
(* src/core/stream.ts): one session of stream(options, onChunk,            *)
(* onComplete, onError), the HTTP client and the stream reader being the   *)
(* environment.  Each action is one run-to-completion step of the          *)
(* JavaScript event loop: the synchronous body of stream(), the            *)
(* continuation of an await, a timer, a call of the cancel function, or    *)
(* the external AbortSignal firing.                                        *)
(***************************************************************************)
EXTENDS Integers, Sequences, FiniteSets, TLC

\* ---------------------------------------------------------------- bounds
MaxRetry == 3
MaxChunks == 2
MaxCancel == 2

\* ------------------------------------------------------------- messages
\* A message is a text plus the number of the request attempt it came from
\* (0 when it is a fixed text).
Msg(t, k) == [text |-> t, n |-> k]

CancelledMsg == Msg("Stream request cancelled manually", 0)

DefaultFailMsg == Msg("Stream request failed", 0)

NoStreamMsg == Msg("Browser does not support stream response, API did not return stream, or response was transformed incorrectly", 0)

ReadFailedPrefix == "Read stream failed: "

\* ---------------------------------------------------------------- errors
Err(nm, cd, m) == [name |-> nm, code |-> cd, message |-> m]

\* what the HTTP client rejects with once the token passed as `signal` fired
CanceledErr == Err("CanceledError", "ERR_CANCELED", Msg("canceled", 0))

\* establishment failures of attempt k: with a message, and without one
NetworkErr(k) == Err("AxiosError", "ERR_NETWORK", Msg("Network Error", k))

BareErr(k) == Err("Error", "", Msg("", k))

\* new Error("Browser does not support stream response, ...")
NoStreamErr == Err("Error", "", NoStreamMsg)

\* what reader.read() rejects with
AbortErr == Err("AbortError", "", Msg("The operation was aborted", 0))

ReadNetErr == Err("TypeError", "", Msg("network error", 0))

\* read() on a reader whose lock was released rejects with a TypeError
ReleasedErr == Err("TypeError", "", Msg("reader released", 0))

\* ------------------------------------------------------------- responses
FieldKinds == {"absent", "stream", "other"}

Responses == [data : FieldKinds, body : FieldKinds, getReader : BOOLEAN]

\* response.data || response.body || (response.getReader ? response : null)
readableStream(resp) ==
    IF resp.data # "absent" THEN resp.data
    ELSE IF resp.body # "absent" THEN resp.body
    ELSE IF resp.getReader THEN "stream" ELSE "absent"

\* !(!readableStream || typeof readableStream.getReader !== "function")
hasReader(resp) == readableStream(resp) = "stream"

\* ------------------------------------------------------------- callbacks
Call(c, a) == [cb |-> c, arg |-> a]

onChunk(lg, i) == Append(lg, Call("onChunk", Msg("chunk", i)))

onComplete(lg) == Append(lg, Call("onComplete", Msg("", 0)))

onError(lg, m) == Append(lg, Call("onError", m))

VARIABLES
    options,                \* [retry, signal]: signal is "none", "live" or "aborted" at call time
    signalAborted,          \* options.signal.aborted
    listeners,              \* number of "abort" listeners this session has on options.signal
    externalSignalHandler,  \* TRUE when externalSignalHandler is not null
    aborted,                \* controller.signal.aborted
    reader,                 \* "null", "held" (lock held) or "released"
    releases,               \* number of reader.releaseLock() calls made
    attempts,               \* the retry counter
    requests,               \* number of calls of instance(...)
    pc,                     \* where makeRequest / readStreamChunk is suspended, or how it returned
    readOnReleased,         \* the pending read() was issued on a released reader
    streamLen,              \* number of chunks of the response stream
    produced,               \* number of chunks read() has resolved with
    log,                    \* the callback invocations, in order
    cancelCalls,            \* number of calls of the cancel function
    failed,                 \* number of establishment attempts that ended in the catch block
    capabilityAt,           \* value of requests when the no-reader error was thrown, 0 if never
    pendingReads,           \* number of reader.read() promises not yet settled
    sseIn,                  \* the text handed to the SSE functions, and how it was built
    fed,                    \* number of characters of the text fed to the stateful parser
    buffer,                 \* createSSEParser: the closure's buffer
    emitted,                \* createSSEParser: the events passed to onMessage, in order
    chunkOut,               \* parseSSEChunk: whether it ran, and the strings passed to onMessage
    frameOut                \* parseSSEEvent: whether it ran, and the event it returned

vars == <<options, signalAborted, listeners, externalSignalHandler, aborted, reader,
          releases, attempts, requests, pc, readOnReleased, streamLen, produced, log,
          cancelCalls, failed, capabilityAt, pendingReads,
          sseIn, fed, buffer, emitted, chunkOut, frameOut>>

sseVars == <<sseIn, fed, buffer, emitted, chunkOut, frameOut>>

ctrlVars == <<options, signalAborted, listeners, externalSignalHandler, aborted, reader,
              releases, attempts, requests, pc, readOnReleased, streamLen, produced, log,
              cancelCalls, failed, capabilityAt, pendingReads>>

\* const maxRetries = options.retry || 0
maxRetries == options.retry

\* ---------------------------------------------------------------- helpers
\* cleanup(): the listener count and the handler after the call
cleanupListeners(sig, h, l) == IF sig # "none" /\ h THEN l - 1 ELSE l

cleanupHandler(sig, h) == IF sig # "none" /\ h THEN FALSE ELSE h

\* variant: the token's own state is not consulted
IsCanceledByErrorOnly(err, ab) == err.name = "CanceledError" \/ err.code = "ERR_CANCELED"

\* err.name === "CanceledError" || err.code === "ERR_CANCELED" || controller.signal.aborted
IsCanceled(err, ab) == err.name = "CanceledError" \/ err.code = "ERR_CANCELED" \/ ab

\* variant: the read catch tests for the HTTP client's error name
IsAbortErrorWrongName(err) == err.name = "CanceledError"

\* err.name === "AbortError"
IsAbortError(err) == err.name = "AbortError"

\* variants: one retry too few, one retry too many
ShouldRetryOneLess(att, max) == att + 1 < max

ShouldRetryInclusive(att, max) == att <= max

\* attempts < maxRetries
ShouldRetry(att, max) == att < max

\* err.message || "Stream request failed"
errorMsg(err) == IF err.message.text = "" THEN DefaultFailMsg ELSE err.message

\* `Read stream failed: ${err.message}`
readFailedMsg(err) == Msg(ReadFailedPrefix \o err.message.text, err.message.n)

\* variant: the pump starts a second read without waiting for the first
issueReadTwice(p) == p + 2

\* await reader.read(): one more read is outstanding
issueRead(p) == p + 1

\* variant: the token is not checked before the request is issued
makeRequestUnchecked(ab) == pc' = "request" /\ requests' = requests + 1

\* if (controller.signal.aborted) return; ... await instance({...})
makeRequest(ab) ==
    IF ab
    THEN pc' = "notIssued" /\ requests' = requests
    ELSE pc' = "request" /\ requests' = requests + 1

Init ==
    /\ options \in [retry : 0..MaxRetry, signal : {"none", "live", "aborted"}]
    /\ signalAborted = (options.signal = "aborted")
    /\ listeners = 0
    /\ externalSignalHandler = FALSE
    /\ aborted = FALSE
    /\ reader = "null"
    /\ releases = 0
    /\ attempts = 0
    /\ requests = 0
    /\ pc = "init"
    /\ readOnReleased = FALSE
    /\ streamLen = 0
    /\ produced = 0
    /\ log = <<>>
    /\ cancelCalls = 0
    /\ failed = 0
    /\ capabilityAt = 0
    /\ pendingReads = 0
    /\ sseIn = [kind |-> "none", text |-> <<>>, parts |-> <<>>]
    /\ fed = 0
    /\ buffer = <<>>
    /\ emitted = <<>>
    /\ chunkOut = [done |-> FALSE, calls |-> <<>>]
    /\ frameOut = [done |-> FALSE, event |-> <<>>]

\* the synchronous body of stream(): external signal, then makeRequest() up to its await
Stream ==
    /\ pc = "init"
    /\ IF options.signal = "none"
       THEN aborted' = aborted /\ externalSignalHandler' = FALSE /\ listeners' = listeners
       ELSE IF signalAborted
            THEN aborted' = TRUE /\ externalSignalHandler' = FALSE /\ listeners' = listeners
            ELSE aborted' = aborted /\ externalSignalHandler' = TRUE /\ listeners' = listeners + 1
    /\ makeRequest(aborted')
    /\ UNCHANGED <<options, signalAborted, reader, releases, attempts, readOnReleased,
                   streamLen, produced, log, cancelCalls, failed, capabilityAt,
                   pendingReads>>
    /\ UNCHANGED sseVars

\* variant: exhausted retries return without reporting
catchRequestSilent(err) ==
    /\ failed' = failed + 1
    /\ IF IsCanceled(err, aborted)
       THEN pc' = "reqCanceled" /\ UNCHANGED <<attempts, log>>
       ELSE IF ShouldRetry(attempts, maxRetries)
            THEN attempts' = attempts + 1 /\ pc' = "delay" /\ UNCHANGED log
            ELSE pc' = "reqFailed" /\ UNCHANGED <<attempts, log>>

\* the catch block of makeRequest
catchRequest(err) ==
    /\ failed' = failed + 1
    /\ IF IsCanceled(err, aborted)
       THEN pc' = "reqCanceled" /\ UNCHANGED <<attempts, log>>
       ELSE IF ShouldRetry(attempts, maxRetries)
            THEN attempts' = attempts + 1 /\ pc' = "delay" /\ UNCHANGED log
            ELSE log' = onError(log, errorMsg(err)) /\ pc' = "reqFailed" /\ UNCHANGED attempts

\* await instance(...) resolves: reader resolution, then readStreamChunk() up to its await
RequestResolve ==
    /\ pc = "request"
    /\ ~aborted
    /\ \E resp \in Responses, n \in 0..MaxChunks :
         IF hasReader(resp)
         THEN /\ reader' = "held"
              /\ streamLen' = n
              /\ pc' = "read"
              /\ pendingReads' = issueRead(pendingReads)
              /\ UNCHANGED <<attempts, log, failed, capabilityAt>>
         ELSE /\ catchRequest(NoStreamErr)
              /\ capabilityAt' = IF capabilityAt = 0 THEN requests ELSE capabilityAt
              /\ UNCHANGED <<reader, streamLen, pendingReads>>
    /\ UNCHANGED <<options, signalAborted, listeners, externalSignalHandler, aborted,
                   releases, requests, readOnReleased, produced, cancelCalls>>
    /\ UNCHANGED sseVars

\* await instance(...) rejects
RequestReject ==
    /\ pc = "request"
    /\ \E err \in (IF aborted THEN {CanceledErr, NetworkErr(requests)}
                              ELSE {NetworkErr(requests), BareErr(requests)}) :
         catchRequest(err)
    /\ UNCHANGED <<options, signalAborted, listeners, externalSignalHandler, aborted, reader,
                   releases, requests, readOnReleased, streamLen, produced, cancelCalls,
                   capabilityAt, pendingReads>>
    /\ UNCHANGED sseVars

\* the retryDelay timer fires: return makeRequest()
DelayElapsed ==
    /\ pc = "delay"
    /\ makeRequest(aborted)
    /\ UNCHANGED <<options, signalAborted, listeners, externalSignalHandler, aborted, reader,
                   releases, attempts, readOnReleased, streamLen, produced, log, cancelCalls,
                   failed, capabilityAt, pendingReads>>
    /\ UNCHANGED sseVars

\* the body of cancelRequest, reporting on top of the callback log lg
cancelRequest(lg) ==
    /\ listeners' = cleanupListeners(options.signal, externalSignalHandler, listeners)
    /\ externalSignalHandler' = cleanupHandler(options.signal, externalSignalHandler)
    /\ aborted' = TRUE
    /\ reader' = IF reader = "null" THEN "null" ELSE "released"
    /\ releases' = IF reader = "null" THEN releases ELSE releases + 1
    /\ log' = onError(lg, CancelledMsg)
    /\ cancelCalls' = cancelCalls + 1

\* the caller invokes the returned cancel function from its own task
Cancel ==
    /\ pc # "init"
    /\ cancelCalls < MaxCancel
    /\ cancelRequest(log)
    /\ UNCHANGED <<options, signalAborted, attempts, requests, pc, readOnReleased, streamLen,
                   produced, failed, capabilityAt, pendingReads>>
    /\ UNCHANGED sseVars

\* reader.read() resolves with a chunk: onChunk (which may itself call the cancel
\* function), then the next readStreamChunk() up to its await
ReadResolveChunk ==
    /\ pc = "read"
    /\ ~readOnReleased
    /\ ~aborted
    /\ produced < streamLen
    /\ produced' = produced + 1
    /\ \E cancelInCallback \in BOOLEAN :
         IF cancelInCallback
         THEN cancelCalls < MaxCancel /\ cancelRequest(onChunk(log, produced + 1))
         ELSE /\ log' = onChunk(log, produced + 1)
              /\ UNCHANGED <<listeners, externalSignalHandler, aborted, reader, releases,
                             cancelCalls>>
    /\ readOnReleased' = (reader' = "released")
    /\ pc' = "read"
    /\ pendingReads' = issueRead(pendingReads - 1)
    /\ UNCHANGED <<options, signalAborted, attempts, requests, streamLen, failed, capabilityAt>>
    /\ UNCHANGED sseVars

\* variant: no return after onComplete(), the pump reads again
ReadResolveDoneNoReturn ==
    /\ pc = "read"
    /\ ~readOnReleased
    /\ ~aborted
    /\ produced = streamLen
    /\ listeners' = cleanupListeners(options.signal, externalSignalHandler, listeners)
    /\ externalSignalHandler' = cleanupHandler(options.signal, externalSignalHandler)
    /\ log' = onComplete(log)
    /\ pc' = "read"
    /\ pendingReads' = pendingReads - 1
    /\ UNCHANGED <<options, signalAborted, aborted, reader, releases, attempts, requests,
                   readOnReleased, streamLen, produced, cancelCalls, failed, capabilityAt>>
    /\ UNCHANGED sseVars

\* reader.read() resolves with done
ReadResolveDone ==
    /\ pc = "read"
    /\ ~readOnReleased
    /\ ~aborted
    /\ produced = streamLen
    /\ listeners' = cleanupListeners(options.signal, externalSignalHandler, listeners)
    /\ externalSignalHandler' = cleanupHandler(options.signal, externalSignalHandler)
    /\ log' = onComplete(log)
    /\ pc' = "completed"
    /\ pendingReads' = pendingReads - 1
    /\ UNCHANGED <<options, signalAborted, aborted, reader, releases, attempts, requests,
                   readOnReleased, streamLen, produced, cancelCalls, failed, capabilityAt>>
    /\ UNCHANGED sseVars

\* variant: a failed read goes to the retry path of the request
catchReadRetrying(err) ==
    /\ listeners' = cleanupListeners(options.signal, externalSignalHandler, listeners)
    /\ externalSignalHandler' = cleanupHandler(options.signal, externalSignalHandler)
    /\ IF IsAbortError(err)
       THEN pc' = "readAborted" /\ UNCHANGED log
       ELSE pc' = "delay" /\ UNCHANGED log

\* the catch block of readStreamChunk
catchRead(err) ==
    /\ listeners' = cleanupListeners(options.signal, externalSignalHandler, listeners)
    /\ externalSignalHandler' = cleanupHandler(options.signal, externalSignalHandler)
    /\ IF IsAbortError(err)
       THEN pc' = "readAborted" /\ UNCHANGED log
       ELSE pc' = "readFailed" /\ log' = onError(log, readFailedMsg(err))

\* reader.read() rejects
ReadReject ==
    /\ pc = "read"
    /\ \E err \in (IF readOnReleased THEN {ReleasedErr}
                   ELSE IF aborted THEN {AbortErr} ELSE {ReadNetErr}) :
         catchRead(err)
    /\ pendingReads' = pendingReads - 1
    /\ UNCHANGED <<options, signalAborted, aborted, reader, releases, attempts, requests,
                   readOnReleased, streamLen, produced, cancelCalls, failed, capabilityAt>>
    /\ UNCHANGED sseVars

\* the external AbortSignal fires: every registered handler runs controller.abort()
ExternalAbort ==
    /\ pc # "init"
    /\ options.signal # "none"
    /\ ~signalAborted
    /\ signalAborted' = TRUE
    /\ aborted' = (aborted \/ listeners > 0)
    /\ UNCHANGED <<options, listeners, externalSignalHandler, reader, releases, attempts,
                   requests, pc, readOnReleased, streamLen, produced, log, cancelCalls, failed,
                   capabilityAt, pendingReads>>
    /\ UNCHANGED sseVars

Next ==
    \/ Stream
    \/ RequestResolve
    \/ RequestReject
    \/ DelayElapsed
    \/ ReadResolveChunk
    \/ ReadResolveDone
    \/ ReadReject
    \/ Cancel
    \/ ExternalAbort

Spec == Init /\ [][Next]_vars

\* every issued request settles, every timer fires, every read settles
FairSpec ==
    /\ Spec
    /\ WF_vars(Stream)
    /\ WF_vars(RequestResolve \/ RequestReject)
    /\ WF_vars(DelayElapsed)
    /\ WF_vars(ReadResolveChunk \/ ReadResolveDone \/ ReadReject)

\* ------------------------------------------------------------ log queries
RECURSIVE CountCb(_, _)
CountCb(lg, c) ==
    IF lg = <<>> THEN 0
    ELSE (IF Head(lg).cb = c THEN 1 ELSE 0) + CountCb(Tail(lg), c)

TypeOK ==
    /\ pc \in {"init", "request", "delay", "read", "notIssued", "reqCanceled", "reqFailed",
               "completed", "readAborted", "readFailed"}
    /\ reader \in {"null", "held", "released"}
    /\ listeners \in 0..1
    /\ attempts \in 0..MaxRetry
    /\ produced \in 0..MaxChunks

RECURSIVE CountArg(_, _)
CountArg(lg, a) ==
    IF lg = <<>> THEN 0
    ELSE (IF Head(lg).cb = "onError" /\ Head(lg).arg = a THEN 1 ELSE 0) + CountArg(Tail(lg), a)

RECURSIVE ChunkIds(_)
ChunkIds(lg) ==
    IF lg = <<>> THEN <<>>
    ELSE (IF Head(lg).cb = "onChunk" THEN <<Head(lg).arg.n>> ELSE <<>>) \o ChunkIds(Tail(lg))

UpTo(n) == [i \in 1..n |-> i]

CancelCall == Call("onError", CancelledMsg)

Active == pc \in {"request", "delay", "read"}

\* ------------------------------------------------------------------ C1
\* C1: when the cancel function is invoked (once) before any callback has run,
\* i.e. while the request is being established, a retry delay is running or the
\* first read is pending, the whole callback history of the session is that one
\* onError("Stream request cancelled manually"): no onChunk, no onComplete and no
\* second onError follow.
C1_CancelBeforeFirstChunk ==
    (cancelCalls = 1 /\ log # <<>> /\ log[1] = CancelCall) => log = <<CancelCall>>

C1_Witness ==
    /\ cancelCalls = 1
    /\ pc = "readAborted"
    /\ reader = "released"
    /\ produced = 0
    /\ streamLen > 0
    /\ log = <<CancelCall>>

\* ------------------------------------------------------------------ C2
\* C2: in a session that is never cancelled and whose reads do not fail, as long
\* as at most `retry` establishment attempts have failed no error is reported;
\* once a reader is obtained after k failures exactly k+1 requests were issued,
\* the chunks are delivered in order, and at completion all of them were.
C2_RetryThenSuccess ==
    (cancelCalls = 0 /\ ~aborted /\ failed <= options.retry /\ pc # "readFailed")
        => /\ CountCb(log, "onError") = 0
           /\ reader # "null" => /\ requests = failed + 1
                                 /\ ChunkIds(log) = UpTo(produced)
           /\ pc = "completed" => produced = streamLen

C2_Witness ==
    /\ options.retry = 3
    /\ failed = 2
    /\ requests = 3
    /\ pc = "completed"
    /\ ChunkIds(log) = UpTo(MaxChunks)
    /\ CountCb(log, "onError") = 0
    /\ cancelCalls = 0

\* ------------------------------------------------------------------ C3
\* C3: never more than maxRetries + 1 requests; when establishment ends in failure
\* exactly maxRetries + 1 requests were issued and onError was invoked exactly
\* once for it, with the message of the last attempt's error.
C3_RetriesBounded ==
    /\ requests <= options.retry + 1
    /\ pc = "reqFailed" =>
         /\ requests = options.retry + 1
         /\ failed = options.retry + 1
         /\ CountCb(log, "onError") - CountArg(log, CancelledMsg) = 1
         /\ \E e \in {NetworkErr(requests), BareErr(requests), NoStreamErr} :
              CountArg(log, errorMsg(e)) = 1
    /\ (pc # "reqFailed" /\ reader = "null") =>
         CountCb(log, "onError") = CountArg(log, CancelledMsg)

C3_Witness ==
    /\ pc = "reqFailed"
    /\ options.retry = 2
    /\ requests = 3
    /\ cancelCalls = 0
    /\ log = <<Call("onError", NetworkErr(3).message)>>

\* ------------------------------------------------------------------ C4
\* C4: once a response without a usable reader has been received, no further
\* request is issued, and when the session has ended the failure was reported
\* to onError exactly once.
C4_CapabilityErrorNotRetried ==
    capabilityAt # 0 =>
        /\ requests = capabilityAt
        /\ ~Active => CountArg(log, NoStreamMsg) = 1

\* ------------------------------------------------------------------ C5
\* C5: once a reader has been obtained no further request is issued, and a read
\* that fails with an error other than an abort is reported by one onError call
\* with a "Read stream failed: ..." message.
C5_ReadFailureNotRetried ==
    [][/\ reader # "null" => requests' = requests
       /\ (pc = "read" /\ pc' \notin {"read", "completed", "readAborted"})
            => \E e \in {ReadNetErr, ReleasedErr} : log' = onError(log, readFailedMsg(e))]_vars

C5_Witness ==
    /\ pc = "readFailed"
    /\ options.retry > 0
    /\ attempts < options.retry
    /\ produced > 0
    /\ ~aborted
    /\ log[Len(log)] = Call("onError", readFailedMsg(ReadNetErr))

\* ------------------------------------------------------------------ C6
\* C6: onComplete is invoked at most once, only at clean end-of-stream; when it
\* has been invoked every chunk of the stream was delivered before it, in order,
\* and no onChunk call follows it.
C6_CompleteOnceAfterAllChunks ==
    /\ CountCb(log, "onComplete") <= 1
    /\ (CountCb(log, "onComplete") = 1) <=> (pc = "completed")
    /\ pc = "completed" =>
         \E i \in 1..Len(log) :
            /\ log[i].cb = "onComplete"
            /\ ChunkIds(SubSeq(log, 1, i - 1)) = UpTo(streamLen)
            /\ ChunkIds(SubSeq(log, i + 1, Len(log))) = <<>>

C6_Witness ==
    /\ pc = "completed"
    /\ streamLen = MaxChunks
    /\ cancelCalls = 0
    /\ log[Len(log)].cb = "onComplete"
    /\ Len(log) = MaxChunks + 1

\* ------------------------------------------------------------------ C7
\* C7: while the internal token is triggered and the cancel function has never
\* been called (so the external signal triggered it), no callback is invoked:
\* no onError, no onComplete, no further onChunk.
C7_ExternalAbortSilent ==
    [][(aborted /\ cancelCalls' = 0) => log' = log]_vars

C7_Witness ==
    /\ options.signal = "live"
    /\ signalAborted
    /\ aborted
    /\ cancelCalls = 0
    /\ pc = "readAborted"
    /\ produced = 1
    /\ log = <<Call("onChunk", Msg("chunk", 1))>>

\* ------------------------------------------------------------------ C8
\* C8: with an external signal that is already triggered when stream() is called,
\* no request is ever issued, no listener is registered on the signal, and
\* neither onChunk nor onComplete is ever invoked.
C8_PreAbortedSignal ==
    options.signal = "aborted" =>
        /\ requests = 0
        /\ listeners = 0
        /\ ~externalSignalHandler
        /\ (pc # "init" => pc = "notIssued" /\ aborted)
        /\ CountCb(log, "onChunk") = 0
        /\ CountCb(log, "onComplete") = 0

C8_Witness ==
    /\ options.signal = "aborted"
    /\ pc = "notIssued"
    /\ aborted
    /\ requests = 0
    /\ cancelCalls = 1

\* ------------------------------------------------------------------ C9
\* C9: once the internal token has been triggered, the only callback that can
\* still be invoked is the cancel function's own onError("Stream request
\* cancelled manually"): no onComplete and no failure report follows.
C9_CancellationPreempts ==
    [][aborted => (log' = log \/ log' = onError(log, CancelledMsg))]_vars

\* ------------------------------------------------------------------ C10
\* C10: over the whole session onComplete and onError are invoked at most once
\* in total.
C10_SingleTerminalNotification ==
    CountCb(log, "onComplete") + CountCb(log, "onError") <= 1

Terminal == pc \in {"notIssued", "reqCanceled", "reqFailed", "completed", "readAborted",
                    "readFailed"}

\* ------------------------------------------------------------------ C11
\* C11: at most one read is outstanding on the reader, one exactly while the pump
\* is suspended; a read is only outstanding when every chunk read so far has been
\* handed to onChunk; the chunks reach onChunk in the transport's order, each once.
C11_PumpSequential ==
    /\ pendingReads \in 0..1
    /\ pendingReads = (IF pc = "read" THEN 1 ELSE 0)
    /\ ChunkIds(log) = UpTo(produced)

C11_Witness ==
    /\ pc = "read"
    /\ pendingReads = 1
    /\ produced = MaxChunks
    /\ ChunkIds(log) = UpTo(MaxChunks)
    /\ ~aborted

\* ------------------------------------------------------------------ C16
\* C16: once the session has ended, in whatever way, no listener of the session
\* is left on the external signal.
C16_ListenerDetachedAtEnd ==
    Terminal => listeners = 0

\* ------------------------------------------------------------------ C17
\* C17: the reader's lock is never released twice, and a session that obtained a
\* reader and has ended has released it exactly once.
C17_ReaderReleasedOnce ==
    /\ releases <= 1
    /\ (Terminal /\ reader # "null") => releases = 1

\* ------------------------------------------------------------------ C18
\* C18: no step in which the internal token is (or becomes) triggered issues an
\* HTTP request; so a cancellation during the retry delay prevents the retry.
C18_NoRequestAfterCancel ==
    [][(aborted \/ aborted') => requests' = requests]_vars

C18_Witness ==
    /\ aborted
    /\ pc = "notIssued"
    /\ attempts = 2
    /\ requests = 2
    /\ options.retry = 3
    /\ cancelCalls = 1

\* ------------------------------------------------------------------ C19
\* C19: under FairSpec a session whose token is never triggered eventually
\* invokes onComplete or onError.
Settled == CountCb(log, "onComplete") + CountCb(log, "onError") >= 1

C19_SessionSettles ==
    ([]~aborted) => <>Settled

C19_Witness ==
    /\ ~aborted
    /\ pc = "reqFailed"
    /\ options.retry = MaxRetry
    /\ attempts = MaxRetry
    /\ Settled

(***************************************************************************)
(* SSE parsing (parseSSEEvent, parseSSEChunk, createSSEParser).  A string  *)
(* is the sequence of its characters.                                      *)
(***************************************************************************)
\* ---------------------------------------------------------------- bounds
MaxTokens == 5
MaxBlocks == 2
MaxLines == 3

NL == "\n"

SP == " "

NLNL == <<NL, NL>>

DataPrefix == <<"d", "a", "t", "a", ":">>

EventPrefix == <<"e", "v", "e", "n", "t", ":">>

IdPrefix == <<"i", "d", ":">>

RetryPrefix == <<"r", "e", "t", "r", "y", ":">>

\* ------------------------------------------------- JavaScript string methods
\* s.startsWith(p)
startsWith(s, p) == Len(s) >= Len(p) /\ SubSeq(s, 1, Len(p)) = p

\* s.slice(n)
slice(s, n) == SubSeq(s, n + 1, Len(s))

IsWhite(c) == c \in {SP, NL}

RECURSIVE trimStart(_)
trimStart(s) == IF s # <<>> /\ IsWhite(Head(s)) THEN trimStart(Tail(s)) ELSE s

RECURSIVE trimEnd(_)
trimEnd(s) ==
    IF s # <<>> /\ IsWhite(s[Len(s)]) THEN trimEnd(SubSeq(s, 1, Len(s) - 1)) ELSE s

\* s.trim()
trim(s) == trimEnd(trimStart(s))

\* index of the first occurrence of sep in s, 0 if there is none
indexOf(s, sep) ==
    LET hits == {i \in 1..(Len(s) - Len(sep) + 1) : SubSeq(s, i, i + Len(sep) - 1) = sep}
    IN  IF hits = {} THEN 0 ELSE CHOOSE i \in hits : \A j \in hits : i <= j

\* s.split(sep), sep not empty
RECURSIVE split(_, _)
split(s, sep) ==
    LET i == indexOf(s, sep)
    IN  IF i = 0 THEN <<s>>
        ELSE <<SubSeq(s, 1, i - 1)>> \o split(SubSeq(s, i + Len(sep), Len(s)), sep)

\* list.join(sep)
RECURSIVE join(_, _)
join(list, sep) ==
    IF list = <<>> THEN <<>>
    ELSE IF Len(list) = 1 THEN list[1]
    ELSE list[1] \o sep \o join(Tail(list), sep)

Digits == <<"0", "1", "2", "3", "4", "5", "6", "7", "8", "9">>

IsDigit(c) == \E k \in 1..Len(Digits) : Digits[k] = c

DigitVal(c) == (CHOOSE k \in 1..Len(Digits) : Digits[k] = c) - 1

RECURSIVE digitsValue(_, _)
digitsValue(s, acc) ==
    IF s # <<>> /\ IsDigit(Head(s)) THEN digitsValue(Tail(s), acc * 10 + DigitVal(Head(s)))
    ELSE acc

\* parseInt(s, 10): <<>> for NaN, <<n>> otherwise
parseInt(s) ==
    LET t == trimStart(s)
        neg == t # <<>> /\ Head(t) = "-"
        u == IF t # <<>> /\ Head(t) \in {"-", "+"} THEN Tail(t) ELSE t
    IN  IF u = <<>> \/ ~IsDigit(Head(u)) THEN <<>>
        ELSE <<(IF neg THEN -1 ELSE 1) * digitsValue(u, 0)>>

\* ----------------------------------------------------------- parseSSEEvent
\* an SSEEvent: each field is <<>> when the key is absent, <<value>> when set
NoEvent == [event |-> <<>>, data |-> <<>>, id |-> <<>>, retry |-> <<>>]

\* variant: the whole remainder of a data line is trimmed
dataContentTrimmed(line) == trim(slice(line, 5))

\* content.startsWith(" ") ? content.slice(1) : content, content = line.slice(5)
dataContent(line) ==
    LET content == slice(line, 5)
    IN  IF startsWith(content, <<SP>>) THEN slice(content, 1) ELSE content

\* the body of the for loop: acc is [result, dataLines]
parseLine(acc, line) ==
    IF startsWith(line, DataPrefix)
    THEN [acc EXCEPT !.dataLines = Append(@, dataContent(line))]
    ELSE IF startsWith(line, EventPrefix)
    THEN [acc EXCEPT !.result.event = <<trim(slice(line, 6))>>]
    ELSE IF startsWith(line, IdPrefix)
    THEN [acc EXCEPT !.result.id = <<trim(slice(line, 3))>>]
    ELSE IF startsWith(line, RetryPrefix)
    THEN LET retry == parseInt(trim(slice(line, 6)))
         IN  IF retry # <<>> THEN [acc EXCEPT !.result.retry = retry] ELSE acc
    ELSE acc

RECURSIVE parseLines(_, _)
parseLines(acc, lines) ==
    IF lines = <<>> THEN acc ELSE parseLines(parseLine(acc, Head(lines)), Tail(lines))

\* parseSSEEvent(eventBlock); null is NoEvent, the event without keys
parseSSEEvent(eventBlock) ==
    LET acc == parseLines([result |-> NoEvent, dataLines |-> <<>>], split(eventBlock, <<NL>>))
    IN  IF acc.dataLines # <<>>
        THEN [acc.result EXCEPT !.data = <<join(acc.dataLines, <<NL>>)>>]
        ELSE acc.result

\* ----------------------------------------------------------- parseSSEChunk
\* variant: onMessage is called whenever the event has a data key
hasDataKey(parsed) == parsed.data # <<>>

\* parsed?.data is truthy
hasData(parsed) == parsed.data # <<>> /\ parsed.data[1] # <<>>

RECURSIVE chunkCalls(_)
chunkCalls(events) ==
    IF events = <<>> THEN <<>>
    ELSE LET parsed == parseSSEEvent(Head(events))
         IN  (IF Head(events) # <<>> /\ hasData(parsed) THEN <<parsed.data[1]>> ELSE <<>>)
                 \o chunkCalls(Tail(events))

\* parseSSEChunk(sseText, onMessage): the arguments of the onMessage calls
parseSSEChunk(sseText) == chunkCalls(split(sseText, NLNL))

\* --------------------------------------------------------- createSSEParser
RECURSIVE blockEvents(_)
blockEvents(parts) ==
    IF parts = <<>> THEN <<>>
    ELSE LET parsed == parseSSEEvent(Head(parts))
         IN  (IF trim(Head(parts)) # <<>> /\ parsed # NoEvent THEN <<parsed>> ELSE <<>>)
                 \o blockEvents(Tail(parts))

\* variant: buffer = chunk, the carry-over is lost
parserCallNoCarry(buf, chunk) ==
    LET parts == split(chunk, NLNL)
    IN  [buffer |-> parts[Len(parts)], events |-> blockEvents(SubSeq(parts, 1, Len(parts) - 1))]

\* variant: the last part is processed as well and nothing is kept
parserCallFlushLast(buf, chunk) ==
    LET parts == split(buf \o chunk, NLNL)
    IN  [buffer |-> <<>>, events |-> blockEvents(parts)]

\* one call of the function createSSEParser returns: the new buffer and the
\* events passed to onMessage
parserCall(buf, chunk) ==
    LET parts == split(buf \o chunk, NLNL)
    IN  [buffer |-> parts[Len(parts)], events |-> blockEvents(SubSeq(parts, 1, Len(parts) - 1))]

\* ------------------------------------------------------------------ inputs
BoundedSeqs(S, n) == UNION {[1..k -> S] : k \in 0..n}

RECURSIVE concat(_)
concat(list) == IF list = <<>> THEN <<>> ELSE Head(list) \o concat(Tail(list))

\* pieces a raw text is made of
RawTokens == {<<NL>>, DataPrefix, IdPrefix, <<"a">>}

\* payloads of well-formed data lines
Payloads == {<<>>, <<"a">>, <<SP, "b">>}

\* a block of a well-formed text: one or two data lines
BlockShapes == UNION {[1..k -> Payloads] : k \in 1..2}

renderBlock(payloads) == join([i \in 1..Len(payloads) |-> DataPrefix \o <<SP>> \o payloads[i]], <<NL>>)

renderBlocks(blocks, closed) ==
    join([i \in 1..Len(blocks) |-> renderBlock(blocks[i])], NLNL)
        \o (IF closed /\ blocks # <<>> THEN NLNL ELSE <<>>)

\* lines of a frame block
FrameLines ==
    { DataPrefix \o <<"a">>,
      DataPrefix \o <<SP, "a">>,
      DataPrefix \o <<SP, SP, "b">>,
      DataPrefix,
      EventPrefix \o <<SP, "e">>,
      IdPrefix \o <<"1">>,
      RetryPrefix \o <<SP, "7">>,
      RetryPrefix \o <<SP, "7", "a">>,
      RetryPrefix \o <<SP, "a">>,
      <<":", SP, "c">>,
      <<"a">>,
      <<>> }

\* the inputs with at most t pieces, b blocks, l lines
SseInputs(t, b, l) ==
    {[kind |-> "raw", text |-> concat(ts), parts |-> <<>>] : ts \in BoundedSeqs(RawTokens, t)}
    \cup {[kind |-> "blocks", text |-> renderBlocks(bs, c), parts |-> bs] :
             bs \in BoundedSeqs(BlockShapes, b), c \in BOOLEAN}
    \cup {[kind |-> "frame", text |-> join(ls, <<NL>>), parts |-> ls] :
             ls \in BoundedSeqs(FrameLines, l) \ {<<>>}}

InitSSE ==
    /\ options = [retry |-> 0, signal |-> "none"]
    /\ signalAborted = FALSE
    /\ listeners = 0
    /\ externalSignalHandler = FALSE
    /\ aborted = FALSE
    /\ reader = "null"
    /\ releases = 0
    /\ attempts = 0
    /\ requests = 0
    /\ pc = "init"
    /\ readOnReleased = FALSE
    /\ streamLen = 0
    /\ produced = 0
    /\ log = <<>>
    /\ cancelCalls = 0
    /\ failed = 0
    /\ capabilityAt = 0
    /\ pendingReads = 0
    /\ sseIn \in SseInputs(MaxTokens, MaxBlocks, MaxLines)
    /\ fed = 0
    /\ buffer = <<>>
    /\ emitted = <<>>
    /\ chunkOut = [done |-> FALSE, calls |-> <<>>]
    /\ frameOut = [done |-> FALSE, event |-> NoEvent]

\* the next chunk of the text, of any length, is handed to the stateful parser
Feed ==
    /\ sseIn.kind = "raw"
    /\ fed < Len(sseIn.text)
    /\ \E k \in 1..(Len(sseIn.text) - fed) :
         LET r == parserCall(buffer, SubSeq(sseIn.text, fed + 1, fed + k))
         IN  /\ buffer' = r.buffer
             /\ emitted' = emitted \o r.events
             /\ fed' = fed + k
    /\ UNCHANGED <<sseIn, chunkOut, frameOut>>
    /\ UNCHANGED ctrlVars

\* parseSSEChunk(text, onMessage)
ParseChunk ==
    /\ sseIn.kind = "blocks"
    /\ ~chunkOut.done
    /\ chunkOut' = [done |-> TRUE, calls |-> parseSSEChunk(sseIn.text)]
    /\ UNCHANGED <<sseIn, fed, buffer, emitted, frameOut>>
    /\ UNCHANGED ctrlVars

\* parseSSEEvent(block)
ParseFrame ==
    /\ sseIn.kind = "frame"
    /\ ~frameOut.done
    /\ frameOut' = [done |-> TRUE, event |-> parseSSEEvent(sseIn.text)]
    /\ UNCHANGED <<sseIn, fed, buffer, emitted, chunkOut>>
    /\ UNCHANGED ctrlVars

NextSSE ==
    \/ Feed
    \/ ParseChunk
    \/ ParseFrame

SpecSSE == InitSSE /\ [][NextSSE]_vars

\* --------------------------------------------------------- text queries
\* the part of the text fed to the stateful parser so far
FedText == SubSeq(sseIn.text, 1, fed)

\* left-to-right scan for "\n\n": the blocks closed by a delimiter, in order
RECURSIVE closedBlocks(_, _, _)
closedBlocks(s, start, i) ==
    IF i + 1 > Len(s) THEN <<>>
    ELSE IF s[i] = NL /\ s[i + 1] = NL
         THEN <<SubSeq(s, start, i - 1)>> \o closedBlocks(s, i + 2, i + 2)
         ELSE closedBlocks(s, start, i + 1)

\* left-to-right scan for "\n\n": index of the last character of the last delimiter
RECURSIVE lastDelimEnd(_, _, _)
lastDelimEnd(s, i, last) ==
    IF i + 1 > Len(s) THEN last
    ELSE IF s[i] = NL /\ s[i + 1] = NL THEN lastDelimEnd(s, i + 2, i + 1)
         ELSE lastDelimEnd(s, i + 1, last)

RECURSIVE eventsOf(_)
eventsOf(blocks) ==
    IF blocks = <<>> THEN <<>>
    ELSE (IF parseSSEEvent(Head(blocks)) # NoEvent THEN <<parseSSEEvent(Head(blocks))>> ELSE <<>>)
             \o eventsOf(Tail(blocks))

NonEmpty(x) == x # <<>>

\* the data of each block of a well-formed text: its payloads joined by "\n"
BlockData == [i \in 1..Len(sseIn.parts) |-> join(sseIn.parts[i], <<NL>>)]

RemoveAt(list, i) == SubSeq(list, 1, i - 1) \o SubSeq(list, i + 1, Len(list))

\* a retry line whose trimmed content is not an optionally signed run of digits
IsNumber(c) ==
    LET u == IF c # <<>> /\ c[1] \in {"-", "+"} THEN Tail(c) ELSE c
    IN  u # <<>> /\ \A k \in 1..Len(u) : IsDigit(u[k])

MalformedRetryLine(line) == startsWith(line, RetryPrefix) /\ ~IsNumber(trim(slice(line, 6)))

Recognized(line) ==
    \/ startsWith(line, DataPrefix)
    \/ startsWith(line, EventPrefix)
    \/ startsWith(line, IdPrefix)
    \/ startsWith(line, RetryPrefix)

StripOne(x) == IF x # <<>> /\ x[1] = SP THEN Tail(x) ELSE x

RECURSIVE payloadsOf(_)
payloadsOf(lines) ==
    IF lines = <<>> THEN <<>>
    ELSE (IF startsWith(Head(lines), DataPrefix)
          THEN <<StripOne(SubSeq(Head(lines), Len(DataPrefix) + 1, Len(Head(lines))))>>
          ELSE <<>>) \o payloadsOf(Tail(lines))

\* ------------------------------------------------------------------ C12
\* C12: however the text fed so far was cut into chunks, the events emitted and
\* the buffer kept are those of a fresh parser fed that text in one call.
C12_ChunkBoundaryIndependence ==
    sseIn.kind = "raw" =>
        /\ emitted = parserCall(<<>>, FedText).events
        /\ buffer = parserCall(<<>>, FedText).buffer

\* a cut inside a "\n\n" delimiter, after an event was emitted
C12_Witness ==
    /\ sseIn.kind = "raw"
    /\ fed > 0
    /\ fed < Len(sseIn.text)
    /\ buffer = <<NL>>
    /\ sseIn.text[fed + 1] = NL
    /\ Len(emitted) = 1

\* ------------------------------------------------------------------ C13
\* C13 as stated: parseSSEChunk calls onMessage once per block of a well-formed
\* text, in order, with the block's data lines joined by "\n".
C13_OneCallPerBlock ==
    (sseIn.kind = "blocks" /\ chunkOut.done) => chunkOut.calls = BlockData

\* C13 amended: once per block whose joined data is not the empty string, in
\* order; blocks whose data is empty get no call.
C13_OneCallPerNonEmptyBlock ==
    (sseIn.kind = "blocks" /\ chunkOut.done) => chunkOut.calls = SelectSeq(BlockData, NonEmpty)

C13_Witness ==
    /\ sseIn.kind = "blocks"
    /\ chunkOut.done
    /\ sseIn.parts = << <<<<"a">>, <<SP, "b">>>>, <<<<>>>> >>
    /\ chunkOut.calls = << <<"a", NL, SP, "b">> >>

\* ------------------------------------------------------------------ C14
\* C14: a retry line whose content is not a number changes nothing: the event
\* parsed from the block is the event parsed from the block without that line.
C14_MalformedRetryIgnored ==
    (sseIn.kind = "frame" /\ frameOut.done) =>
        \A i \in 1..Len(sseIn.parts) :
            MalformedRetryLine(sseIn.parts[i])
                => frameOut.event = parseSSEEvent(join(RemoveAt(sseIn.parts, i), <<NL>>))

\* ------------------------------------------------------------------ C15
\* C15: with n >= 1 data lines in the block the data field is their payloads
\* (prefix removed, at most one leading space removed) joined by "\n" in order,
\* with none the data key is absent; a block without a recognized line gives
\* no event.
C15_DataLinesJoined ==
    (sseIn.kind = "frame" /\ frameOut.done) =>
        /\ frameOut.event.data =
              (IF payloadsOf(sseIn.parts) = <<>> THEN <<>>
               ELSE <<join(payloadsOf(sseIn.parts), <<NL>>)>>)
        /\ (\A i \in 1..Len(sseIn.parts) : ~Recognized(sseIn.parts[i]))
              => frameOut.event = NoEvent

C15_Witness ==
    /\ sseIn.kind = "frame"
    /\ frameOut.done
    /\ sseIn.parts = <<DataPrefix \o <<SP, "a">>, IdPrefix \o <<"1">>, DataPrefix \o <<SP, SP, "b">>>>
    /\ frameOut.event.data = << <<"a", NL, SP, "b">> >>
    /\ frameOut.event.id = << <<"1">> >>

\* ------------------------------------------------------------------ C20
\* C20: after every call the buffer holds no "\n\n" and is what follows the last
\* delimiter of the text fed so far, and the events emitted are exactly those of
\* the blocks that a delimiter closes in that text.
C20_BufferInvariant ==
    sseIn.kind = "raw" =>
        /\ \A i \in 1..(Len(buffer) - 1) : ~(buffer[i] = NL /\ buffer[i + 1] = NL)
        /\ buffer = SubSeq(FedText, lastDelimEnd(FedText, 1, 0) + 1, fed)
        /\ emitted = eventsOf(closedBlocks(FedText, 1, 1))

\* everything was fed, an event was emitted, and an unclosed data block is held back
C20_Witness ==
    /\ sseIn.kind = "raw"
    /\ fed = Len(sseIn.text)
    /\ Len(emitted) = 1
    /\ buffer = DataPrefix \o <<"a">>
====
